---- MODULE Spec2Model ----
(***************************************************************************)
(* Model of app/main.py of the SERA backend: the capture flow              *)
(* (capture_text), the action flow (handle_card_action), the list-cards    *)
(* query (get_user_cards) and the WebSocket endpoint (websocket_endpoint)  *)
(* together with the collaborators they call: the Inference Client         *)
(* (gemini), the Card Store (db) and the Connection Registry               *)
(* (websocket_manager).                                                    *)
(*                                                                         *)
(* Every request handler is an asyncio task.  A task runs without          *)
(* interruption from one await to the next, so each action below is the    *)
(* code between two suspension points.  A call into the Card Store is two  *)
(* steps: the store performs the write while the handler is suspended      *)
(* (Db...), and the handler resumes later.                                 *)
(***************************************************************************)
EXTENDS Integers, Sequences, FiniteSets, TLC

\* ---------------------------------------------------------------- bounds
MaxCaptures == 2   \* capture requests issued in one run
MaxBatch    == 2   \* cards the Inference Client returns for one capture
MaxActions  == 2   \* action requests issued in one run
MaxChannels == 2   \* WebSocket channels opened in one run
MaxFrames   == 2   \* inbound frames read on one channel

\* ---------------------------------------------------------------- inputs
Absent == "<absent>"                       \* a key missing from a JSON body
BodyUserIds == {"u1", Absent}              \* request["user_id"], when given
BodyActions == {"accepted", "xyzzy", Absent} \* action["action"], when given
PathUserIds == {"u1", "default_user"}      \* /ws/{user_id}
UnknownCardId == 0                         \* an id no capture ever produced

\* dict.get(key, default)
get(value, default) == IF value = Absent THEN default ELSE value

CaptureIds == 1..MaxCaptures
ActionIds  == 1..MaxActions
Channels   == 1..MaxChannels

VARIABLES
    active_cards,        \* main.py:91   card_id -> card object
    db_cards,            \* Card Store: card rows, in insertion order
    db_sessions,         \* Card Store: session rows, in insertion order
    active_connections,  \* Connection Registry entries <<user_id, channel>>
    outbox,              \* channel -> pushes written to it
    gemini_calls,        \* invocations of the Inference Client
    issued,              \* number of card ids generated so far
    cap,                 \* capture request -> its task state
    act,                 \* action request -> its task state
    ws,                  \* channel -> state of its websocket_endpoint task
    load                 \* the traffic of this run: how many requests of each
                         \* kind, channels and frames per channel arrive

vars == <<active_cards, db_cards, db_sessions, active_connections, outbox,
          gemini_calls, issued, cap, act, ws, load>>

\* ------------------------------------------------------- exception flow
\* main.py:126-127: every exception raised inside capture_text's try block
\* becomes HTTPException(500).
capture_except(exc) == 500

\* main.py:159-160: "except Exception" also catches the HTTPException(404)
\* raised at line 135 (HTTPException derives from Exception) and re-raises
\* it as HTTPException(500).
action_except(exc) == 500

\* The traffic mixes explored.  Handlers of different requests interleave
\* freely within a mix.
Loads ==
    { [captures |-> MaxCaptures, actions |-> 0, channels |-> 1, frames |-> 0],
      [captures |-> 1, actions |-> MaxActions, channels |-> 0, frames |-> 0],
      [captures |-> 1, actions |-> 1, channels |-> MaxChannels, frames |-> 0],
      [captures |-> 0, actions |-> 0, channels |-> MaxChannels, frames |-> MaxFrames] }

Init ==
    /\ load \in Loads
    /\ active_cards = [x \in {} |-> x]
    /\ db_cards = <<>>
    /\ db_sessions = <<>>
    /\ active_connections = {}
    /\ outbox = [c \in Channels |-> {}]
    /\ gemini_calls = {}
    /\ issued = 0
    /\ cap = [r \in CaptureIds |-> [pc |-> "idle", user_id |-> Absent,
                                    cards |-> <<>>, k |-> 0,
                                    notify |-> "none", http |-> 0]]
    /\ act = [a \in ActionIds |-> [pc |-> "idle", card_id |-> UnknownCardId,
                                   action_type |-> Absent, found |-> FALSE,
                                   overlap |-> FALSE, steps |-> <<>>,
                                   raised |-> "none", targets |-> {},
                                   failing |-> {}, http |-> 0,
                                   response |-> Absent]]
    /\ ws = [c \in Channels |-> [pc |-> "idle", user_id |-> Absent,
                                 frames |-> 0, pongs |-> 0,
                                 last |-> Absent, sent |-> "none"]]

\* ------------------------------------------------------------ helpers
\* the mapping m with key k set to v (dict assignment m[k] = v)
dict_set(m, k, v) ==
    [x \in (DOMAIN m) \cup {k} |-> IF x = k THEN v ELSE m[x]]

\* A card as the Inference Client creates it for a capture of user_id
\* (main.py:41-50 shows the shape: fresh card_id, status pending, the
\* request's user_id).
new_card(card_id, user_id) ==
    [card_id |-> card_id, user_id |-> user_id, status |-> "pending"]

\* The dict object behind a card id held in a capture's `cards` list.  Once
\* line 109 has run the list and active_cards share the object; before that
\* only the request holds it.
card_object(r, card_id) ==
    IF card_id \in DOMAIN active_cards
        THEN active_cards[card_id]
        ELSE new_card(card_id, cap[r].user_id)

\* The `cards` list of capture r as it reads now (main.py:118, 123).
cards_of(r) ==
    [i \in 1..Len(cap[r].cards) |-> card_object(r, cap[r].cards[i])]

\* ------------------------------------------------------- Card Store (db)
\* db.store_card(card): one more row, a copy of the card as it is now
store_card(rows, card) == Append(rows, card)

\* db.store_session(session_id, user_id, cards)
store_session(rows, session_id, user_id, cards) ==
    Append(rows, [session_id |-> session_id, user_id |-> user_id,
                  cards |-> cards])

\* db.update_card_status(card_id, status)
update_card_status(rows, card_id, status) ==
    [i \in 1..Len(rows) |->
        IF rows[i].card_id = card_id
            THEN [rows[i] EXCEPT !.status = status]
            ELSE rows[i]]

\* db.get_user_cards(user_id)
db_get_user_cards(rows, user_id) ==
    SelectSeq(rows, LAMBDA row : row.user_id = user_id)

\* main.py:162-171  GET /api/user/{user_id}/cards
get_user_cards(user_id) ==
    LET cards == db_get_user_cards(db_cards, user_id)
    IN  [user_id |-> user_id, cards |-> cards, count |-> Len(cards)]

\* ------------------------------------------------- Connection Registry
\* the channel registered under user_id, as a set (empty when none)
channels_of(conns, user_id) == {e[2] : e \in {x \in conns : x[1] = user_id}}

\* connect that adds the entry and keeps the one the user had
connect_KeepsOld(conns, channel, user_id) == conns \cup {<<user_id, channel>>}

\* websocket_manager.connect(websocket, user_id), after the handshake
connect(conns, channel, user_id) ==
    {e \in conns : e[1] # user_id} \cup {<<user_id, channel>>}

\* websocket_manager.disconnect(user_id)
disconnect(conns, user_id) == {e \in conns : e[1] # user_id}

\* disconnect written as "del active_connections[user_id]": a KeyError when
\* the user has no entry
disconnect_raises_KeyError(conns, user_id) == channels_of(conns, user_id) = {}

\* whether websocket_manager.disconnect(user_id) raises: removing an absent
\* key is a no-op, not an error
disconnect_raises(conns, user_id) == FALSE

\* websocket_manager.send_personal_message(message, user_id); `ok` says
\* whether the write to the channel goes through.  The result is the new
\* outboxes, what became of the message, and whether the call raised.
send_personal_message(boxes, conns, message, user_id, ok) ==
    LET targets == channels_of(conns, user_id)
    IN  IF targets = {}
            THEN [outbox |-> boxes, outcome |-> "dropped", raised |-> FALSE]
        ELSE IF ok
            THEN [outbox |-> [c \in DOMAIN boxes |->
                                 IF c \in targets
                                     THEN boxes[c] \cup {message}
                                     ELSE boxes[c]],
                  outcome |-> "sent", raised |-> FALSE]
        ELSE [outbox |-> boxes, outcome |-> "failed", raised |-> FALSE]

\* websocket_manager.broadcast(message); `failing` are the channels whose
\* write fails.
broadcast(boxes, conns, message, failing) ==
    LET targets == {e[2] : e \in conns}
    IN  [outbox |-> [c \in DOMAIN boxes |->
                        IF c \in targets \ failing
                            THEN boxes[c] \cup {message}
                            ELSE boxes[c]],
         raised |-> FALSE]

\* ---------------------------------------------------------- capture_text
\* main.py:97-104: a request arrives; the handler runs up to the await of
\* gemini.process_user_query.  Requests are numbered in order of arrival and
\* the number stands for the fresh session_id.
CaptureStart(r, body_user_id) ==
    /\ cap[r].pc = "idle"
    /\ r <= load.captures
    /\ \A q \in CaptureIds : q < r => cap[q].pc # "idle"
    /\ cap' = [cap EXCEPT ![r].pc = "infer",
                          ![r].user_id = get(body_user_id, "default_user")]
    /\ gemini_calls' = gemini_calls \cup {<<"process_user_query", r>>}
    /\ UNCHANGED <<active_cards, db_cards, db_sessions, active_connections,
                   outbox, issued, act, ws, load>>

\* the handler of r raises: main.py:126-127
CaptureFail(r) == [cap EXCEPT ![r].pc = "failed",
                              ![r].http = capture_except("Exception")]

\* capture_after_cards with line 112 left out: from the last card straight
\* to the notification
capture_after_cards_SkipsSession(r, batch, done) ==
    IF done < Len(batch) THEN "store_card" ELSE "session_stored"

\* where the handler of r suspends once `done` cards of its batch are stored
capture_after_cards(r, batch, done) ==
    IF done < Len(batch) THEN "store_card" ELSE "store_session"

\* CaptureInferred that caches the whole batch in active_cards before any
\* card is stored
CaptureInferred_CachesAll(r, n) ==
    /\ cap[r].pc = "infer"
    /\ LET batch == [i \in 1..n |-> issued + i]
       IN  /\ cap' = [cap EXCEPT ![r].cards = batch,
                                 ![r].k = 0,
                                 ![r].pc = capture_after_cards(r, batch, 0)]
           /\ active_cards' =
                 [x \in (DOMAIN active_cards) \cup {batch[i] : i \in 1..n} |->
                     IF x \in DOMAIN active_cards
                         THEN active_cards[x]
                         ELSE new_card(x, cap[r].user_id)]
    /\ issued' = issued + n
    /\ UNCHANGED <<db_cards, db_sessions, active_connections,
                   outbox, gemini_calls, act, ws, load>>

\* main.py:104-108: the Inference Client answers with n cards carrying fresh
\* ids; the handler goes on to the first db.store_card (or, with no card, to
\* db.store_session).
CaptureInferred(r, n) ==
    /\ cap[r].pc = "infer"
    /\ LET batch == [i \in 1..n |-> issued + i]
       IN  cap' = [cap EXCEPT ![r].cards = batch,
                              ![r].k = 0,
                              ![r].pc = capture_after_cards(r, batch, 0)]
    /\ issued' = issued + n
    /\ UNCHANGED <<active_cards, db_cards, db_sessions, active_connections,
                   outbox, gemini_calls, act, ws, load>>

\* main.py:104 raises
CaptureInferenceFails(r) ==
    /\ cap[r].pc = "infer"
    /\ cap' = CaptureFail(r)
    /\ UNCHANGED <<active_cards, db_cards, db_sessions, active_connections,
                   outbox, gemini_calls, issued, act, ws, load>>

\* main.py:108: the Card Store writes card k+1 of the batch
DbStoreCard(r) ==
    /\ cap[r].pc = "store_card"
    /\ db_cards' = store_card(db_cards, card_object(r, cap[r].cards[cap[r].k + 1]))
    /\ cap' = [cap EXCEPT ![r].pc = "card_stored"]
    /\ UNCHANGED <<active_cards, db_sessions, active_connections, outbox,
                   gemini_calls, issued, act, ws, load>>

\* DbStoreCardFails with lines 108 and 109 swapped: the card is in
\* active_cards before the store is asked to write it
DbStoreCardFails_AfterInsert(r) ==
    /\ cap[r].pc = "store_card"
    /\ LET card_id == cap[r].cards[cap[r].k + 1]
       IN  active_cards' = dict_set(active_cards, card_id, card_object(r, card_id))
    /\ cap' = CaptureFail(r)
    /\ UNCHANGED <<db_cards, db_sessions, active_connections,
                   outbox, gemini_calls, issued, act, ws, load>>

\* main.py:108 raises
DbStoreCardFails(r) ==
    /\ cap[r].pc = "store_card"
    /\ cap' = CaptureFail(r)
    /\ UNCHANGED <<active_cards, db_cards, db_sessions, active_connections,
                   outbox, gemini_calls, issued, act, ws, load>>

\* CaptureCardStored with line 109 moved out of the loop: only the last card
\* of the batch reaches active_cards
CaptureCardStored_LastOnly(r) ==
    /\ cap[r].pc = "card_stored"
    /\ LET card_id == cap[r].cards[cap[r].k + 1]
       IN  active_cards' =
               IF cap[r].k + 1 = Len(cap[r].cards)
                   THEN dict_set(active_cards, card_id, card_object(r, card_id))
                   ELSE active_cards
    /\ cap' = [cap EXCEPT ![r].k = @ + 1,
                          ![r].pc = capture_after_cards(r, cap[r].cards, cap[r].k + 1)]
    /\ UNCHANGED <<db_cards, db_sessions, active_connections, outbox,
                   gemini_calls, issued, act, ws, load>>

\* main.py:109, then 107-108 or 112: back from db.store_card, the handler
\* puts the card into active_cards and awaits the next store call.
CaptureCardStored(r) ==
    /\ cap[r].pc = "card_stored"
    /\ LET card_id == cap[r].cards[cap[r].k + 1]
       IN  active_cards' = dict_set(active_cards, card_id, card_object(r, card_id))
    /\ cap' = [cap EXCEPT ![r].k = @ + 1,
                          ![r].pc = capture_after_cards(r, cap[r].cards, cap[r].k + 1)]
    /\ UNCHANGED <<db_cards, db_sessions, active_connections, outbox,
                   gemini_calls, issued, act, ws, load>>

\* main.py:112: the Card Store writes the session row
\* DbStoreSession that writes one Session row for each card of the batch
DbStoreSession_PerCard(r) ==
    /\ cap[r].pc = "store_session"
    /\ db_sessions' = db_sessions \o
          [i \in 1..Len(cap[r].cards) |->
              [session_id |-> r, user_id |-> cap[r].user_id,
               cards |-> <<cards_of(r)[i]>>]]
    /\ cap' = [cap EXCEPT ![r].pc = "session_stored"]
    /\ UNCHANGED <<active_cards, db_cards, active_connections, outbox,
                   gemini_calls, issued, act, ws, load>>

\* main.py:112: the Card Store writes the Session row
DbStoreSession(r) ==
    /\ cap[r].pc = "store_session"
    /\ db_sessions' = store_session(db_sessions, r, cap[r].user_id, cards_of(r))
    /\ cap' = [cap EXCEPT ![r].pc = "session_stored"]
    /\ UNCHANGED <<active_cards, db_cards, active_connections, outbox,
                   gemini_calls, issued, act, ws, load>>

\* main.py:112 raises
DbStoreSessionFails(r) ==
    /\ cap[r].pc = "store_session"
    /\ cap' = CaptureFail(r)
    /\ UNCHANGED <<active_cards, db_cards, db_sessions, active_connections,
                   outbox, gemini_calls, issued, act, ws, load>>

\* main.py:115-119: the new_cards message as json.dumps writes it now
new_cards_message(r) ==
    [type |-> "new_cards", session_id |-> r, cards |-> cards_of(r)]

\* CaptureNotify that hands new_cards to every registered channel (broadcast
\* in place of send_personal_message)
CaptureNotify_Broadcasts(r, ok) ==
    /\ cap[r].pc = "session_stored"
    /\ outbox' = broadcast(outbox, active_connections, new_cards_message(r),
                           IF ok THEN {} ELSE Channels).outbox
    /\ cap' = [cap EXCEPT ![r].pc = "notified",
                          ![r].notify = IF active_connections = {}
                                            THEN "dropped"
                                        ELSE IF ok THEN "sent" ELSE "failed"]
    /\ UNCHANGED <<active_cards, db_cards, db_sessions, active_connections,
                   gemini_calls, issued, act, ws, load>>

\* CaptureNotify that marks the cards it has announced as "sent"
CaptureNotify_MarksSent(r, ok) ==
    /\ cap[r].pc = "session_stored"
    /\ outbox' = send_personal_message(outbox, active_connections,
                       new_cards_message(r), cap[r].user_id, ok).outbox
    /\ cap' = [cap EXCEPT ![r].pc = "notified",
                          ![r].notify = send_personal_message(outbox,
                              active_connections, new_cards_message(r),
                              cap[r].user_id, ok).outcome]
    /\ active_cards' =
          [x \in DOMAIN active_cards |->
              IF \E i \in 1..Len(cap[r].cards) : cap[r].cards[i] = x
                  THEN [active_cards[x] EXCEPT !.status = "sent"]
                  ELSE active_cards[x]]
    /\ UNCHANGED <<db_cards, db_sessions, active_connections,
                   gemini_calls, issued, act, ws, load>>

\* CaptureNotify that raises when the message was not delivered
CaptureNotify_RequiresDelivery(r, ok) ==
    /\ cap[r].pc = "session_stored"
    /\ LET sent == send_personal_message(outbox, active_connections,
                                         new_cards_message(r), cap[r].user_id, ok)
       IN  /\ outbox' = sent.outbox
           /\ cap' = IF sent.outcome # "sent"
                         THEN CaptureFail(r)
                         ELSE [cap EXCEPT ![r].pc = "notified",
                                          ![r].notify = sent.outcome]
    /\ UNCHANGED <<active_cards, db_cards, db_sessions, active_connections,
                   gemini_calls, issued, act, ws, load>>

\* main.py:115-119: back from db.store_session, the handler sends the
\* new_cards notification to the request's user.
CaptureNotify(r, ok) ==
    /\ cap[r].pc = "session_stored"
    /\ LET sent == send_personal_message(outbox, active_connections,
                                         new_cards_message(r), cap[r].user_id, ok)
       IN  /\ outbox' = sent.outbox
           /\ cap' = IF sent.raised
                         THEN CaptureFail(r)
                         ELSE [cap EXCEPT ![r].pc = "notified",
                                          ![r].notify = sent.outcome]
    /\ UNCHANGED <<active_cards, db_cards, db_sessions, active_connections,
                   gemini_calls, issued, act, ws, load>>

\* main.py:121-125: the success response
CaptureReturn(r) ==
    /\ cap[r].pc = "notified"
    /\ cap' = [cap EXCEPT ![r].pc = "done", ![r].http = 200]
    /\ UNCHANGED <<active_cards, db_cards, db_sessions, active_connections,
                   outbox, gemini_calls, issued, act, ws, load>>

Capture ==
    \/ \E r \in CaptureIds, u \in BodyUserIds : CaptureStart(r, u)
    \/ \E r \in CaptureIds, n \in 0..MaxBatch : CaptureInferred(r, n)
    \/ \E r \in CaptureIds : CaptureInferenceFails(r)
    \/ \E r \in CaptureIds : DbStoreCard(r)
    \/ \E r \in CaptureIds : DbStoreCardFails(r)
    \/ \E r \in CaptureIds : CaptureCardStored(r)
    \/ \E r \in CaptureIds : DbStoreSession(r)
    \/ \E r \in CaptureIds : DbStoreSessionFails(r)
    \/ \E r \in CaptureIds, ok \in BOOLEAN : CaptureNotify(r, ok)
    \/ \E r \in CaptureIds : CaptureReturn(r)

\* ----------------------------------------------------- handle_card_action
\* the handler of a raises exc: main.py:159-160
ActionFail(a, exc) == [act EXCEPT ![a].pc = "failed",
                                  ![a].raised = exc,
                                  ![a].http = action_except(exc)]

\* the positions of a handler that has passed the lookup and not yet ended
InFlight == {"interpret", "update", "updated", "broadcast"}

\* ActionStart with the lookup of line 133 done after the Inference Client
\* was called
ActionStart_InfersFirst(a, card_id, body_action) ==
    /\ act[a].pc = "idle"
    /\ a <= load.actions
    /\ \A b \in ActionIds : b < a => act[b].pc # "idle"
    /\ gemini_calls' = gemini_calls \cup {<<"process_card_action", a>>}
    /\ IF card_id \notin DOMAIN active_cards
           THEN act' = [ActionFail(a, "HTTPException(404)")
                           EXCEPT ![a].card_id = card_id]
           ELSE act' = [act EXCEPT ![a].pc = "interpret",
                                   ![a].card_id = card_id,
                                   ![a].found = TRUE,
                                   ![a].action_type = get(body_action, "")]
    /\ UNCHANGED <<active_cards, db_cards, db_sessions, active_connections,
                   outbox, issued, cap, ws, load>>

\* main.py:133-141: a request arrives for card_id.  A card_id missing from
\* active_cards raises HTTPException(404) inside the try block; otherwise the
\* handler runs up to the await of gemini.process_card_action.
ActionStart(a, card_id, body_action) ==
    /\ act[a].pc = "idle"
    /\ a <= load.actions
    /\ \A b \in ActionIds : b < a => act[b].pc # "idle"
    /\ IF card_id \notin DOMAIN active_cards
           THEN /\ act' = [ActionFail(a, "HTTPException(404)")
                              EXCEPT ![a].card_id = card_id]
                /\ UNCHANGED gemini_calls
           ELSE /\ LET racing == {b \in ActionIds \ {a} :
                                      /\ act[b].card_id = card_id
                                      /\ act[b].pc \in InFlight}
                    IN  act' = [b \in ActionIds |->
                                 IF b = a
                                     THEN [act[a] EXCEPT
                                             !.pc = "interpret",
                                             !.card_id = card_id,
                                             !.found = TRUE,
                                             !.action_type = get(body_action, ""),
                                             !.overlap = racing # {}]
                                 ELSE IF b \in racing
                                     THEN [act[b] EXCEPT !.overlap = TRUE]
                                 ELSE act[b]]
                /\ gemini_calls' = gemini_calls \cup {<<"process_card_action", a>>}
    /\ UNCHANGED <<active_cards, db_cards, db_sessions, active_connections,
                   outbox, issued, cap, ws, load>>

\* main.py:148-152: the card_updated message
card_updated_message(a) ==
    [type |-> "card_updated", card_id |-> act[a].card_id,
     action |-> act[a].action_type]

\* ActionInterpreted with the broadcast of lines 148-152 moved up, before the
\* await of db.update_card_status
ActionInterpreted_BroadcastsEarly(a) ==
    /\ act[a].pc = "interpret"
    /\ outbox' = broadcast(outbox, active_connections,
                           card_updated_message(a), {}).outbox
    /\ act' = [act EXCEPT ![a].pc = "update",
                          ![a].steps = @ \o <<"interpreted", "broadcast">>]
    /\ UNCHANGED <<active_cards, db_cards, db_sessions, active_connections,
                   gemini_calls, issued, cap, ws, load>>

\* main.py:141-144: the Inference Client answers; the handler goes on to the
\* await of db.update_card_status.
ActionInterpreted(a) ==
    /\ act[a].pc = "interpret"
    /\ act' = [act EXCEPT ![a].pc = "update",
                          ![a].steps = Append(@, "interpreted")]
    /\ UNCHANGED <<active_cards, db_cards, db_sessions, active_connections,
                   outbox, gemini_calls, issued, cap, ws, load>>

\* main.py:141 raises
ActionInterpretFails(a) ==
    /\ act[a].pc = "interpret"
    /\ act' = ActionFail(a, "Exception")
    /\ UNCHANGED <<active_cards, db_cards, db_sessions, active_connections,
                   outbox, gemini_calls, issued, cap, ws, load>>

\* main.py:144: the Card Store writes the new status
DbUpdateStatus(a) ==
    /\ act[a].pc = "update"
    /\ db_cards' = update_card_status(db_cards, act[a].card_id, act[a].action_type)
    /\ act' = [act EXCEPT ![a].pc = "updated",
                          ![a].steps = Append(@, "persisted")]
    /\ UNCHANGED <<active_cards, db_sessions, active_connections, outbox,
                   gemini_calls, issued, cap, ws, load>>

\* DbUpdateStatusFails with line 145 placed before the await of line 144: the
\* in-memory status is already set when the store update raises
DbUpdateStatusFails_AfterSet(a) ==
    /\ act[a].pc = "update"
    /\ active_cards' = [active_cards EXCEPT
                            ![act[a].card_id].status = act[a].action_type]
    /\ act' = ActionFail(a, "Exception")
    /\ UNCHANGED <<db_cards, db_sessions, active_connections,
                   outbox, gemini_calls, issued, cap, ws, load>>

\* main.py:144 raises
DbUpdateStatusFails(a) ==
    /\ act[a].pc = "update"
    /\ act' = ActionFail(a, "Exception")
    /\ UNCHANGED <<active_cards, db_cards, db_sessions, active_connections,
                   outbox, gemini_calls, issued, cap, ws, load>>

\* ActionApply that notifies the card's owner alone (send_personal_message
\* in place of broadcast)
ActionApply_OwnerOnly(a, failing) ==
    /\ act[a].pc = "updated"
    /\ active_cards' = [active_cards EXCEPT
                            ![act[a].card_id].status = act[a].action_type]
    /\ outbox' = send_personal_message(outbox, active_connections,
                       card_updated_message(a),
                       active_cards[act[a].card_id].user_id,
                       failing = {}).outbox
    /\ act' = [act EXCEPT ![a].pc = "broadcast",
                          ![a].steps = @ \o <<"status_set", "broadcast">>,
                          ![a].targets = {e[2] : e \in active_connections},
                          ![a].failing = failing]
    /\ UNCHANGED <<db_cards, db_sessions, active_connections, gemini_calls,
                   issued, cap, ws, load>>

\* ActionApply with line 145 guarded by "if action_type:"
ActionApply_SkipsEmpty(a, failing) ==
    /\ act[a].pc = "updated"
    /\ active_cards' = IF act[a].action_type = ""
                           THEN active_cards
                           ELSE [active_cards EXCEPT
                                    ![act[a].card_id].status = act[a].action_type]
    /\ outbox' = broadcast(outbox, active_connections,
                           card_updated_message(a), failing).outbox
    /\ act' = [act EXCEPT ![a].pc = "broadcast",
                          ![a].steps = @ \o <<"status_set", "broadcast">>,
                          ![a].targets = {e[2] : e \in active_connections},
                          ![a].failing = failing]
    /\ UNCHANGED <<db_cards, db_sessions, active_connections, gemini_calls,
                   issued, cap, ws, load>>

\* main.py:145-152: back from db.update_card_status, the handler sets the
\* status of the card object it looked up and broadcasts card_updated.
ActionApply(a, failing) ==
    /\ act[a].pc = "updated"
    /\ active_cards' = [active_cards EXCEPT
                            ![act[a].card_id].status = act[a].action_type]
    /\ LET sent == broadcast(outbox, active_connections,
                             card_updated_message(a), failing)
       IN  /\ outbox' = sent.outbox
           /\ act' = [(IF sent.raised
                          THEN ActionFail(a, "Exception")
                          ELSE [act EXCEPT ![a].pc = "broadcast"])
                      EXCEPT ![a].steps = @ \o <<"status_set", "broadcast">>,
                             ![a].targets = {e[2] : e \in active_connections},
                             ![a].failing = failing]
    /\ UNCHANGED <<db_cards, db_sessions, active_connections, gemini_calls,
                   issued, cap, ws, load>>

\* main.py:154-158: the success response
ActionReturn(a) ==
    /\ act[a].pc = "broadcast"
    /\ act' = [act EXCEPT ![a].pc = "done", ![a].http = 200,
                          ![a].response = [card_id |-> act[a].card_id,
                                           status |-> act[a].action_type,
                                           success |-> TRUE]]
    /\ UNCHANGED <<active_cards, db_cards, db_sessions, active_connections,
                   outbox, gemini_calls, issued, cap, ws, load>>

Action ==
    \/ \E a \in ActionIds, c \in (1..issued) \cup {UnknownCardId},
          b \in BodyActions : ActionStart(a, c, b)
    \/ \E a \in ActionIds : ActionInterpreted(a)
    \/ \E a \in ActionIds : ActionInterpretFails(a)
    \/ \E a \in ActionIds : DbUpdateStatus(a)
    \/ \E a \in ActionIds : DbUpdateStatusFails(a)
    \/ \E a \in ActionIds, failing \in SUBSET {e[2] : e \in active_connections} :
          ActionApply(a, failing)
    \/ \E a \in ActionIds : ActionReturn(a)

\* ----------------------------------------------------- websocket_endpoint
\* text frames a client may send
Frames == {"{\"type\": \"ping\"}", "{\"type\": \"hello\"}", "{}", "[1]", "ping"}

\* json.loads(data), main.py:182
json_loads(data) ==
    CASE data = "{\"type\": \"ping\"}"  -> [kind |-> "dict", type |-> "ping"]
      [] data = "{\"type\": \"hello\"}" -> [kind |-> "dict", type |-> "hello"]
      [] data = "{}"                    -> [kind |-> "dict", type |-> Absent]
      [] data = "[1]"                   -> [kind |-> "list", type |-> Absent]
      [] OTHER                          -> [kind |-> "JSONDecodeError", type |-> Absent]

\* what a send_text on a channel can do: go through, or raise because the
\* peer is gone (WebSocketDisconnect or RuntimeError, by Starlette version)
SendResults == {"ok", "WebSocketDisconnect", "RuntimeError"}

\* main.py:178: the handshake succeeds and the registry takes the channel
WsConnect(ch, user_id) ==
    /\ ws[ch].pc = "idle"
    /\ ch <= load.channels
    /\ \A c \in Channels : c < ch => ws[c].pc # "idle"
    /\ active_connections' = connect(active_connections, ch, user_id)
    /\ ws' = [ws EXCEPT ![ch].pc = "open", ![ch].user_id = user_id]
    /\ UNCHANGED <<active_cards, db_cards, db_sessions, outbox, gemini_calls,
                   issued, cap, act, load>>

\* main.py:187-188: how the endpoint ends once WebSocketDisconnect is caught
\* and disconnect(user_id) is called: normally, or with the exception that
\* disconnect raised
ws_after_disconnect(conns, user_id) ==
    IF disconnect_raises(conns, user_id) THEN "crashed" ELSE "closed"

\* WsFrame with the test of line 184 left out: a pong for every message
WsFrame_PongsAlways(ch, data, sent) ==
    /\ ws[ch].pc = "open"
    /\ ws[ch].frames < load.frames
    /\ LET message == json_loads(data)
           read == [ws[ch] EXCEPT !.frames = @ + 1, !.last = data, !.sent = "none"]
       IN  ws' = [ws EXCEPT ![ch] =
             IF message.kind # "dict"
                 THEN [read EXCEPT !.pc = "crashed"]
             ELSE IF sent = "ok"
                 THEN [read EXCEPT !.pongs = @ + 1, !.sent = sent]
             ELSE IF sent = "WebSocketDisconnect"
                 THEN [read EXCEPT !.pc = "closed", !.sent = sent]
             ELSE [read EXCEPT !.pc = "crashed", !.sent = sent]]
    /\ active_connections' =
           IF ws'[ch].pc = "closed"
               THEN disconnect(active_connections, ws[ch].user_id)
               ELSE active_connections
    /\ UNCHANGED <<active_cards, db_cards, db_sessions, outbox, gemini_calls,
                   issued, cap, act, load>>

\* main.py:181-185: one round of the read loop on a frame that arrived;
\* `sent` is what the send_text of the pong does.  The frame and the outcome
\* of the write are kept in `last` and `sent` for reference.
WsFrame(ch, data, sent) ==
    /\ ws[ch].pc = "open"
    /\ ws[ch].frames < load.frames
    /\ LET message == json_loads(data)
           read == [ws[ch] EXCEPT !.frames = @ + 1, !.last = data, !.sent = "none"]
       IN  ws' = [ws EXCEPT ![ch] =
             IF message.kind # "dict"
                 \* json.loads or message.get raises: not a WebSocketDisconnect
                 THEN [read EXCEPT !.pc = "crashed"]
             ELSE IF message.type # "ping"
                 THEN read
             ELSE IF sent = "ok"
                 THEN [read EXCEPT !.pongs = @ + 1, !.sent = sent]
             ELSE IF sent = "WebSocketDisconnect"
                 THEN [read EXCEPT
                          !.pc = ws_after_disconnect(active_connections,
                                                     ws[ch].user_id),
                          !.sent = sent]
             ELSE [read EXCEPT !.pc = "crashed", !.sent = sent]]
    /\ active_connections' =
           IF ws'[ch].sent = "WebSocketDisconnect"
               THEN disconnect(active_connections, ws[ch].user_id)
               ELSE active_connections
    /\ UNCHANGED <<active_cards, db_cards, db_sessions, outbox, gemini_calls,
                   issued, cap, act, load>>

\* main.py:181, 187-188: receive_text raises WebSocketDisconnect
WsDisconnect(ch) ==
    /\ ws[ch].pc = "open"
    /\ active_connections' = disconnect(active_connections, ws[ch].user_id)
    /\ ws' = [ws EXCEPT ![ch].pc = ws_after_disconnect(active_connections,
                                                       ws[ch].user_id)]
    /\ UNCHANGED <<active_cards, db_cards, db_sessions, outbox, gemini_calls,
                   issued, cap, act, load>>

WebSocket ==
    \/ \E ch \in Channels, u \in PathUserIds : WsConnect(ch, u)
    \/ \E ch \in Channels, data \in Frames, sent \in SendResults :
          WsFrame(ch, data, sent)
    \/ \E ch \in Channels : WsDisconnect(ch)

Next == Capture \/ Action \/ WebSocket

Spec == Init /\ [][Next]_vars

\* ------------------------------------------------------------------ claims
\* the rows of the list-cards response for user_id that carry card_id
listed(user_id, card_id) ==
    {i \in 1..get_user_cards(user_id).count :
        get_user_cards(user_id).cards[i].card_id = card_id}

\* C1: an action on a card_id absent from active_cards is answered with
\* HTTP 404, not with the 500 of the other failures.
C1_NotFoundIs404 ==
    \A a \in ActionIds :
        act[a].raised = "HTTPException(404)" => act[a].http = 404

\* C2: an action request whose card_id is not in active_cards (in particular
\* an id no capture produced) changes neither active_cards, nor the Card
\* Store, nor the registry, calls the Inference Client not at all and writes
\* to no channel.
C2_NotFoundMutatesNothing ==
    [][\A a \in ActionIds :
          (/\ act[a].pc = "idle"
           /\ act'[a].pc # "idle"
           /\ act'[a].card_id \notin DOMAIN active_cards)
          => /\ active_cards' = active_cards
             /\ db_cards' = db_cards
             /\ db_sessions' = db_sessions
             /\ active_connections' = active_connections
             /\ gemini_calls' = gemini_calls
             /\ outbox' = outbox]_vars

\* a request for the unknown id was turned down while cards, rows and a
\* registry entry existed
C2_Witness ==
    /\ \E a \in ActionIds : /\ act[a].pc = "failed"
                             /\ act[a].card_id = UnknownCardId
    /\ DOMAIN active_cards # {}
    /\ db_cards # <<>>
    /\ active_connections # {}

\* C3: when an action request on a card of active_cards returns and no other
\* action on that card ran at the same time, the card's status is the
\* request's action_type, whatever string that is, in active_cards and in the
\* list-cards response of the card's user, and the response is
\* {card_id, status: action_type, success: true}.
C3_StatusIsActionType ==
    [][\A a \in ActionIds :
          (/\ act[a].pc = "broadcast"
           /\ act'[a].pc = "done"
           /\ ~act'[a].overlap)
          => LET c == act[a].card_id
                 t == act[a].action_type
                 u == active_cards[c].user_id
             IN  /\ active_cards'[c].status = t
                 /\ listed(u, c)' # {}
                 /\ \A i \in listed(u, c)' : get_user_cards(u)'.cards[i].status = t
                 /\ act'[a].http = 200
                 /\ act'[a].response = [card_id |-> c, status |-> t,
                                        success |-> TRUE]]_vars

\* an action with the empty action_type and one with an unknown one have
\* returned, neither overlapping another action on its card
C3_Witness ==
    \E a, b \in ActionIds :
        /\ act[a].pc = "done" /\ act[a].action_type = "" /\ ~act[a].overlap
        /\ act[b].pc = "done" /\ act[b].action_type = "xyzzy" /\ ~act[b].overlap

\* the Card Store holds the session row of capture r
session_persisted(r) ==
    \E i \in 1..Len(db_sessions) : db_sessions[i].session_id = r

\* the Card Store holds a row for card_id
card_persisted(card_id) ==
    \E i \in 1..Len(db_cards) : db_cards[i].card_id = card_id

\* the channels that were handed the new_cards message of capture r
notified_channels(r) ==
    {ch \in Channels :
        \E m \in outbox[ch] : m.type = "new_cards" /\ m.session_id = r}

\* C4 as claimed: when a capture returns success, each of its cards is in the
\* list-cards response of the request's user and in active_cards, with status
\* pending.
C4_ReturnedCardsPending ==
    [][\A r \in CaptureIds :
          (cap[r].pc = "notified" /\ cap'[r].pc = "done")
          => \A i \in 1..Len(cap[r].cards) :
                LET c == cap[r].cards[i]
                IN  /\ listed(cap[r].user_id, c)' # {}
                    /\ c \in DOMAIN active_cards'
                    /\ active_cards'[c].status = "pending"]_vars

\* C4 as amended: when a capture returns success, each of its cards is in
\* the list-cards response of the request's user and in active_cards; its
\* status is pending unless an action request on that card has set it in the
\* meantime, and then it is that request's action_type.
C4_ReturnedCardsStored ==
    [][\A r \in CaptureIds :
          (cap[r].pc = "notified" /\ cap'[r].pc = "done")
          => /\ cap'[r].http = 200
             /\ \A i \in 1..Len(cap[r].cards) :
                  LET c == cap[r].cards[i]
                  IN  /\ listed(cap[r].user_id, c)' # {}
                      /\ c \in DOMAIN active_cards'
                      /\ \/ active_cards'[c].status = "pending"
                         \/ \E a \in ActionIds :
                              /\ act'[a].card_id = c
                              /\ act'[a].pc \in {"broadcast", "done"}
                              /\ active_cards'[c].status = act'[a].action_type]_vars

\* a capture of a full batch has returned; one of its cards is still pending
\* and an action has set the status of another
C4_Witness ==
    \E r \in CaptureIds :
        /\ cap[r].pc = "done"
        /\ Len(cap[r].cards) = MaxBatch
        /\ \E i, j \in 1..Len(cap[r].cards) :
              /\ active_cards[cap[r].cards[i]].status = "pending"
              /\ active_cards[cap[r].cards[j]].status = "accepted"

\* C5: the steps of one capture request happen in the order received,
\* inferred, persisted, notified, completed: the notification is written
\* only once the session row and every card row are in the Card Store, the
\* session row only once every card row is there and the Inference Client
\* was called, and the success response only once the notification step ended.
C5_StepOrder ==
    \A r \in CaptureIds :
        /\ notified_channels(r) # {} => session_persisted(r)
        /\ cap[r].notify # "none" => session_persisted(r)
        /\ session_persisted(r) =>
              /\ <<"process_user_query", r>> \in gemini_calls
              /\ \A i \in 1..Len(cap[r].cards) :
                    /\ card_persisted(cap[r].cards[i])
                    /\ cap[r].cards[i] \in DOMAIN active_cards
        /\ cap[r].http = 200 => cap[r].notify # "none"
        /\ (\E i \in 1..Len(cap[r].cards) : card_persisted(cap[r].cards[i]))
              => <<"process_user_query", r>> \in gemini_calls

\* a capture has completed after its notification reached a channel, while
\* another capture was under way
C5_Witness ==
    \E r, q \in CaptureIds :
        /\ cap[r].http = 200
        /\ notified_channels(r) # {}
        /\ cap[r].cards # <<>>
        /\ cap[q].pc \in {"store_card", "card_stored", "store_session"}

\* C6: once inference and persistence of a capture have succeeded the request
\* does not fail: it answers 200 whether the notification was written, was
\* dropped for want of a registered channel, or failed in the write; a
\* dropped or failed message is in no channel, then or later.
C6_NotifyBestEffort ==
    \A r \in CaptureIds :
        /\ session_persisted(r) =>
              /\ cap[r].pc \in {"session_stored", "notified", "done"}
              /\ cap[r].pc = "done" => cap[r].http = 200
        /\ cap[r].notify \in {"dropped", "failed"} => notified_channels(r) = {}

\* one capture returned success with its message dropped and another with
\* the write failed
C6_Witness ==
    \E r, q \in CaptureIds :
        /\ cap[r].http = 200 /\ cap[r].notify = "dropped"
        /\ cap[q].http = 200 /\ cap[q].notify = "failed"

\* C7: an action that got as far as the broadcast has written card_updated
\* to every channel registered at that moment whose write did not fail,
\* whoever owns the card, and failed writes do not fail the request.
C7_BroadcastToAll ==
    \A a \in ActionIds :
        /\ act[a].pc \in {"broadcast", "done"} =>
              \A ch \in act[a].targets \ act[a].failing :
                  card_updated_message(a) \in outbox[ch]
        /\ act[a].failing # {} => act[a].pc \in {"broadcast", "done"}
        /\ act[a].pc = "done" => act[a].http = 200

\* an action returned success after a broadcast to two channels, one of
\* which failed; the other, of a user who does not own the card, got the
\* message
C7_Witness ==
    \E a \in ActionIds, ch \in Channels :
        /\ act[a].pc = "done" /\ act[a].http = 200
        /\ Cardinality(act[a].targets) = 2
        /\ act[a].targets \ act[a].failing = {ch}
        /\ card_updated_message(a) \in outbox[ch]
        /\ ws[ch].user_id # active_cards[act[a].card_id].user_id

\* C8: the registry never holds two channels for one user; a connect for
\* user_id leaves exactly the new channel under user_id and the entries of
\* the other users as they were.
C8_OneChannelPerUser ==
    [][/\ \A u \in PathUserIds :
             Cardinality(channels_of(active_connections', u)) <= 1
       /\ \A ch \in Channels :
             (ws[ch].pc = "idle" /\ ws'[ch].pc = "open")
             => LET u == ws'[ch].user_id
                IN  /\ channels_of(active_connections', u) = {ch}
                    /\ {e \in active_connections' : e[1] # u}
                         = {e \in active_connections : e[1] # u}]_vars

\* a user connected a second time while the first channel was still open
C8_Witness ==
    \E c, d \in Channels :
        /\ c < d
        /\ ws[c].pc = "open" /\ ws[d].pc = "open"
        /\ ws[c].user_id = ws[d].user_id
        /\ channels_of(active_connections, ws[d].user_id) = {d}

\* C9: once a channel has ended, by the disconnect signal or by any other
\* end of its read loop, the registry holds no entry for it.
C9_EndedChannelLeavesRegistry ==
    \A ch \in Channels :
        ws[ch].pc \in {"closed", "crashed"}
            => <<ws[ch].user_id, ch>> \notin active_connections

\* C10: on an open channel a frame that parses to a message of type ping,
\* its reply written, adds exactly one pong on that channel; a message of
\* any other type adds none and changes nothing; either way the read loop
\* stays open and no other channel is touched.
C10_PingPong ==
    [][\A ch \in Channels :
          (ws[ch].pc = "open" /\ ws'[ch].frames = ws[ch].frames + 1)
          => LET m == json_loads(ws'[ch].last)
             IN  /\ (m.kind = "dict" /\ m.type = "ping" /\ ws'[ch].sent = "ok")
                      => /\ ws'[ch].pongs = ws[ch].pongs + 1
                         /\ ws'[ch].pc = "open"
                 /\ (m.kind = "dict" /\ m.type # "ping")
                      => /\ ws'[ch].pongs = ws[ch].pongs
                         /\ ws'[ch].pc = "open"
                 /\ m.kind = "dict"
                      => /\ \A c \in Channels \ {ch} : ws'[c] = ws[c]
                         /\ UNCHANGED <<active_cards, db_cards, db_sessions,
                                        outbox, gemini_calls, issued, cap, act>>
                         /\ ws'[ch].pc = "open"
                               => active_connections' = active_connections]_vars

\* a channel has answered one ping and ignored one other message and is
\* still open
C10_Witness ==
    \E ch \in Channels :
        /\ ws[ch].pc = "open"
        /\ ws[ch].frames = 2
        /\ ws[ch].pongs = 1
        /\ json_loads(ws[ch].last).type # "ping"

\* C11: disconnect(user_id) is idempotent.  Each time the endpoint calls it,
\* with or without an entry for the user, the call raises nothing (the
\* endpoint ends normally), a call without an entry leaves the registry as it
\* is, and a second call on the result changes nothing more.
C11_DisconnectIdempotent ==
    [][\A ch \in Channels :
          (/\ ws[ch].pc = "open"
           /\ ws'[ch].pc # "open"
           /\ \/ ws'[ch].frames = ws[ch].frames
              \/ ws'[ch].sent = "WebSocketDisconnect")
          => LET u == ws[ch].user_id
             IN  /\ ws'[ch].pc = "closed"
                 /\ active_connections' = disconnect(active_connections, u)
                 /\ channels_of(active_connections, u) = {}
                       => active_connections' = active_connections
                 /\ disconnect(active_connections', u) = active_connections'
                 /\ channels_of(active_connections', u) = {}]_vars

\* two channels of one user have both ended by disconnect: the second call
\* found no entry
C11_Witness ==
    \E c, d \in Channels :
        /\ c # d
        /\ ws[c].user_id = ws[d].user_id
        /\ ws[c].pc = "closed" /\ ws[d].pc = "closed"
        /\ ws[c].sent = "none" /\ ws[d].sent = "none"

\* C12: when storing card k+1 of a batch fails, the k cards before it stay in
\* the Card Store and in active_cards, the cards from k+1 on are in neither,
\* no session row is written, no new_cards message is sent, and the request
\* is answered 500.
C12_PartialBatch ==
    \A r \in CaptureIds :
        (cap[r].pc = "failed" /\ cap[r].k < Len(cap[r].cards))
        => /\ \A i \in 1..Len(cap[r].cards) :
                 LET c == cap[r].cards[i]
                 IN  IF i <= cap[r].k
                         THEN card_persisted(c) /\ c \in DOMAIN active_cards
                         ELSE ~card_persisted(c) /\ c \notin DOMAIN active_cards
           /\ ~session_persisted(r)
           /\ notified_channels(r) = {}
           /\ cap[r].notify = "none"
           /\ cap[r].http = 500

\* the second card of a batch of two failed to store while the request's
\* user had a registered channel
C12_Witness ==
    \E r \in CaptureIds :
        /\ cap[r].pc = "failed"
        /\ Len(cap[r].cards) = 2
        /\ cap[r].k = 1
        /\ channels_of(active_connections, cap[r].user_id) # {}

\* C18: every card in active_cards has a row in the Card Store, whatever
\* captures run or fail meanwhile.
C18_CachedCardsPersisted ==
    \A c \in DOMAIN active_cards : card_persisted(c)

\* one capture failed partway, another is still storing, and active_cards
\* holds cards of both
C18_Witness ==
    \E r, q \in CaptureIds :
        /\ cap[r].pc = "failed" /\ cap[r].k >= 1
        /\ cap[q].pc \in {"store_card", "card_stored"} /\ cap[q].k >= 1
        /\ cap[r].cards[1] \in DOMAIN active_cards
        /\ cap[q].cards[1] \in DOMAIN active_cards

\* C13: a card of active_cards stays there with the card_id and user_id it
\* was created with; it enters with status pending, and its status changes
\* only in the step of a handle_card_action on that card_id that sets it, to
\* that request's action_type; no step of capture_text or of the WebSocket
\* endpoint changes it.
C13_CardFieldsStable ==
    [][/\ \A c \in DOMAIN active_cards :
             /\ c \in DOMAIN active_cards'
             /\ active_cards'[c].card_id = active_cards[c].card_id
             /\ active_cards'[c].user_id = active_cards[c].user_id
             /\ active_cards'[c].status # active_cards[c].status
                   => \E a \in ActionIds :
                         /\ act[a].card_id = c
                         /\ act[a].pc = "updated"
                         /\ act'[a].pc = "broadcast"
                         /\ active_cards'[c].status = act[a].action_type
       /\ \A c \in (DOMAIN active_cards') \ (DOMAIN active_cards) :
             /\ active_cards'[c].card_id = c
             /\ active_cards'[c].status = "pending"
             /\ \E r \in CaptureIds :
                   /\ active_cards'[c].user_id = cap[r].user_id
                   /\ \E i \in 1..Len(cap[r].cards) : cap[r].cards[i] = c]_vars

\* after a capture and two actions have ended, one card carries the status
\* an action gave it and another is still pending
C13_Witness ==
    /\ \E r \in CaptureIds : cap[r].pc = "done"
    /\ \A a \in ActionIds : act[a].pc \in {"done", "failed"}
    /\ \E c, d \in DOMAIN active_cards :
          /\ active_cards[c].status = "xyzzy"
          /\ active_cards[d].status = "pending"

\* the Session rows the Card Store holds for capture r
session_rows(r) ==
    {i \in 1..Len(db_sessions) : db_sessions[i].session_id = r}

\* C14: a capture that has reached the persisted step has exactly one Session
\* row and any other capture has none; the row carries the capture's
\* session_id, the request's user_id and the capture's whole card list in
\* order; it is written when every card of the capture is already a Card
\* Store row, and once written no row is changed, removed or written again.
C14_OneSessionPerCapture ==
    [][/\ \A r \in CaptureIds :
             /\ Cardinality(session_rows(r)') =
                   IF cap'[r].pc \in {"session_stored", "notified", "done"}
                       THEN 1 ELSE 0
             /\ \A i \in session_rows(r)' :
                   /\ db_sessions'[i].user_id = cap'[r].user_id
                   /\ Len(db_sessions'[i].cards) = Len(cap'[r].cards)
                   /\ \A j \in 1..Len(cap'[r].cards) :
                         /\ db_sessions'[i].cards[j].card_id = cap'[r].cards[j]
                         /\ db_sessions'[i].cards[j].user_id = cap'[r].user_id
                         /\ i > Len(db_sessions)
                               => card_persisted(cap[r].cards[j])
       /\ Len(db_sessions') <= Len(db_sessions) + 1
       /\ \A i \in 1..Len(db_sessions) :
             /\ i <= Len(db_sessions')
             /\ db_sessions'[i] = db_sessions[i]]_vars

\* a capture of two cards has returned, its Session row lists both, and an
\* action has since given one of them another status
C14_Witness ==
    \E r \in CaptureIds :
       /\ cap[r].pc = "done"
       /\ Len(cap[r].cards) = 2
       /\ \E i \in session_rows(r) :
             /\ Len(db_sessions[i].cards) = 2
             /\ \E j \in 1..2 :
                   /\ db_sessions[i].cards[j].status = "pending"
                   /\ active_cards[cap[r].cards[j]].status = "accepted"

\* the order of the effects of one handle_card_action (main.py:141-152)
ActionOrder == <<"interpreted", "persisted", "status_set", "broadcast">>

\* C15: the effects of one handle_card_action happen in the order inference
\* returned, status persisted, in-memory status set, broadcast sent, whatever
\* other requests do in between: the broadcast never precedes the store update
\* or the in-memory write, and the store update never precedes the return of
\* the inference call.
C15_ActionStepOrder ==
    \A a \in ActionIds :
       /\ Len(act[a].steps) <= Len(ActionOrder)
       /\ \A i \in 1..Len(act[a].steps) : act[a].steps[i] = ActionOrder[i]
       /\ act[a].pc = "done" => act[a].steps = ActionOrder

\* two actions on one card were in flight together and both have gone
\* through all four effects
C15_Witness ==
    \E a, b \in ActionIds :
       /\ a # b
       /\ act[a].card_id = act[b].card_id
       /\ act[a].overlap /\ act[b].overlap
       /\ act[a].pc = "done" /\ act[b].pc = "done"
       /\ act[a].steps = ActionOrder /\ act[b].steps = ActionOrder

\* C16: when two handle_card_action requests with different action_type
\* values run concurrently on the same card and both have returned, the
\* card's status in active_cards equals its status in the Card Store.
C16_ConcurrentActionsAgree ==
    \A a, b \in ActionIds :
       (/\ a # b
        /\ act[a].pc = "done" /\ act[b].pc = "done"
        /\ act[a].card_id = act[b].card_id
        /\ act[a].overlap /\ act[b].overlap
        /\ act[a].action_type # act[b].action_type)
       => \A i \in 1..Len(db_cards) :
             db_cards[i].card_id = act[a].card_id
             => db_cards[i].status = active_cards[act[a].card_id].status

\* C17: a channel whose read loop is running and that was the last to
\* connect for its user stays registered, also when a channel it superseded
\* disconnects later.
C17_LatestChannelStaysRegistered ==
    \A ch \in Channels :
       (/\ ws[ch].pc = "open"
        /\ \A d \in Channels : d > ch => ws[d].user_id # ws[ch].user_id)
       => <<ws[ch].user_id, ch>> \in active_connections

\* C19: when the interpretation of the action or the status update of the
\* Card Store fails in a handle_card_action on a known card, the step leaves
\* active_cards and every channel's messages as they were, the request ends
\* with HTTP 500, and it has neither set the in-memory status nor broadcast.
C19_FailedActionChangesNothing ==
    [][\A a \in ActionIds :
          (/\ act[a].pc \in {"interpret", "update"}
           /\ act'[a].pc = "failed")
          => /\ act[a].found
             /\ act[a].card_id \in DOMAIN active_cards
             /\ active_cards' = active_cards
             /\ outbox' = outbox
             /\ act'[a].http = 500
             /\ \A i \in 1..Len(act'[a].steps) :
                   act'[a].steps[i] \notin {"status_set", "broadcast"}]_vars

\* an action on a known card failed at the store update, after the
\* interpretation returned, while a channel was registered: the card is still
\* pending and no channel was handed a card_updated message
C19_Witness ==
    \E a \in ActionIds :
       /\ act[a].pc = "failed" /\ act[a].found
       /\ act[a].steps = <<"interpreted">>
       /\ act[a].http = 500
       /\ active_cards[act[a].card_id].status = "pending"
       /\ active_connections # {}
       /\ \A ch \in Channels : \A m \in outbox[ch] : m.type # "card_updated"

\* C20: a new_cards message is handed to a channel only in the notification
\* step of a capture, carries that capture's session_id and exactly that
\* capture's cards in order, and the channel is the one registered under the
\* capture's user_id when the message is sent; a channel registered under
\* another user_id is handed nothing by that step.
C20_NewCardsToOwnerOnly ==
    [][\A ch \in Channels :
          \A m \in outbox'[ch] \ outbox[ch] :
             m.type = "new_cards"
             => \E r \in CaptureIds :
                   /\ cap[r].pc = "session_stored"
                   /\ cap'[r].pc = "notified"
                   /\ m.session_id = r
                   /\ Len(m.cards) = Len(cap[r].cards)
                   /\ \A j \in 1..Len(m.cards) :
                         /\ m.cards[j].card_id = cap[r].cards[j]
                         /\ m.cards[j].user_id = cap[r].user_id
                   /\ <<cap[r].user_id, ch>> \in active_connections
                   /\ ws[ch].user_id = cap[r].user_id
                   /\ \A d \in Channels \ {ch} :
                         <<cap[r].user_id, d>> \notin active_connections
                         => outbox'[d] = outbox[d]]_vars

\* two captures by different users overlapped (q began first, the Session row
\* of r was written first) and both have returned while one channel was
\* registered: the channel's user got the message of their own capture and
\* nothing of the other capture, whose message was dropped
C20_Witness ==
    \E r, q \in CaptureIds : \E ch \in Channels :
       /\ cap[r].user_id # cap[q].user_id
       /\ cap[r].pc = "done" /\ cap[q].pc = "done"
       /\ cap[r].cards # <<>> /\ cap[q].cards # <<>>
       /\ q < r
       /\ \E i \in session_rows(r) : \E j \in session_rows(q) : i < j
       /\ <<cap[r].user_id, ch>> \in active_connections
       /\ cap[r].notify = "sent" /\ cap[q].notify = "dropped"
       /\ notified_channels(r) = {ch}
       /\ notified_channels(q) = {}
====
